---------------------------- MODULE Spec2Model ----------------------------
(***************************************************************************)
(* Model of kerio_trans.py: the selective translation of the Cyrillic      *)
(* string values of a JS/JSON localisation file.                           *)
(*                                                                         *)
(* A string is a sequence of Unicode code points (naturals).  The regular  *)
(* expressions of the program are modelled by operators that compute what  *)
(* Python's re module computes for them (leftmost match, greedy, with the  *)
(* backtracking the patterns allow), str.replace by Replace.  The content   *)
(* of a file is the sequence of the code points it encodes; reading and    *)
(* writing it go through the newline translation of open() in text mode.   *)
(* Files with bytes that are no UTF-8, which errors='replace' reads as      *)
(* U+FFFD, and strings with lone surrogates, which cannot be written, are  *)
(* not among the inputs.                                                   *)
(*                                                                         *)
(* Two specifications:                                                     *)
(*   Spec    one run of process_file, from the read of the input file to   *)
(*           the write of the output file;                                 *)
(*   SpecFn  the functions mask_fragments / unmask_fragments,              *)
(*           translate_value_literal and its quote codec applied to        *)
(*           inputs drawn from bounded sets.                               *)
(***************************************************************************)
EXTENDS Naturals, Sequences, FiniteSets

VARIABLES
    fs,          \* the file system: path -> content, or Absent
    fs0,         \* the file system as it was when the run began
    outputPath,  \* process_file's output_path argument
    pc,          \* position of the run inside process_file
    text,        \* the local variable text (line 135)
    backup,      \* what the backup block (lines 138-144) did
    pos,         \* where KV_VALUE_RE.sub resumes scanning text
    new_text,    \* the output assembled so far by KV_VALUE_RE.sub
    results,     \* one record per match handed to _replace_value
    pending,     \* the match whose translate call is in progress
    arg,         \* SpecFn: the input string
    op,          \* SpecFn: which function was applied
    res          \* SpecFn: what it gave

fileVars == <<fs, fs0, outputPath, pc, text, backup, pos, new_text, results, pending>>
fnVars == <<arg, op, res>>
vars == <<fs, fs0, outputPath, pc, text, backup, pos, new_text, results, pending,
          arg, op, res>>

---------------------------------------------------------------------------
(* Characters the program names in its patterns and literals.              *)

Quote == 34
Backslash == 92
Colon == 58
Newline == 10
CarriageReturn == 13
Percent == 37
LBrace == 123
RBrace == 125
Lt == 60
Gt == 62
Amp == 38
Semicolon == 59
Hash == 35
LBracket == 91
RBracket == 93
Pipe == 124
CyrillicLo == 1024
CyrillicHi == 1279

\* \s of a str pattern: the characters for which str.isspace() holds
Whitespace ==
    (9..13) \cup (28..32) \cup {133, 160, 5760} \cup (8192..8202)
        \cup {8232, 8233, 8239, 8287, 12288}

\* \d of a str pattern, restricted to the ASCII digits (the other Unicode
\* decimal digits occur in no input of the model)
Digit == 48..57

\* [a-zA-Z#0-9]
EntityChar == (97..122) \cup (65..90) \cup {Hash} \cup (48..57)

\* "__MASK" and "__" of the mask token f'__MASK{i}__'
MaskHead == <<95, 95, 77, 65, 83, 75>>
MaskTail == <<95, 95>>

---------------------------------------------------------------------------
(* Strings.                                                                *)

\* s[i-1:] starts with pat (i is 1-based)
StartsWithAt(s, i, pat) ==
    /\ i + Len(pat) - 1 <= Len(s)
    /\ SubSeq(s, i, i + Len(pat) - 1) = pat

RECURSIVE ReplaceFrom(_, _, _, _)
ReplaceFrom(s, i, old, new) ==
    IF i > Len(s) THEN <<>>
    ELSE IF StartsWithAt(s, i, old)
         THEN new \o ReplaceFrom(s, i + Len(old), old, new)
         ELSE <<s[i]>> \o ReplaceFrom(s, i + 1, old, new)

\* s.replace(old, new) for a non-empty old: every occurrence, left to
\* right, non-overlapping
Replace(s, old, new) == ReplaceFrom(s, 1, old, new)

RECURSIVE Dec(_)
\* the decimal digits of i, as str(i) gives them
Dec(i) == IF i < 10 THEN <<48 + i>> ELSE Dec(i \div 10) \o <<48 + (i % 10)>>

\* the first index j >= i with s[j] in set, or 0
RECURSIVE FindIn(_, _, _)
FindIn(s, i, set) ==
    IF i > Len(s) THEN 0
    ELSE IF s[i] \in set THEN i
    ELSE FindIn(s, i + 1, set)

\* the first index j >= i with s[j] not in set, or Len(s) + 1
RECURSIVE SkipIn(_, _, _)
SkipIn(s, i, set) ==
    IF i > Len(s) THEN i
    ELSE IF s[i] \in set THEN SkipIn(s, i + 1, set)
    ELSE i

---------------------------------------------------------------------------
(* PLACEHOLDER_RE: the five alternatives begin with five different         *)
(* characters, so at most one of them can match at a position.             *)

\* the index of the last character of the match of PLACEHOLDER_RE that
\* begins at i, or 0 when none begins there
FragmentEnd(s, i) ==
    IF s[i] = Percent THEN            \* %\d+
        LET e == SkipIn(s, i + 1, Digit) IN IF e > i + 1 THEN e - 1 ELSE 0
    ELSE IF s[i] = LBrace THEN        \* \{[^\}]*\}
        FindIn(s, i + 1, {RBrace})
    ELSE IF s[i] = Lt THEN            \* <[^>]*?>
        FindIn(s, i + 1, {Gt})
    ELSE IF s[i] = Amp THEN           \* &[a-zA-Z#0-9]+;
        LET e == SkipIn(s, i + 1, EntityChar)
        IN IF e > i + 1 /\ e <= Len(s) /\ s[e] = Semicolon THEN e ELSE 0
    ELSE IF s[i] = LBracket THEN      \* \[\s*[^|\]]+\s*\|\s*[^]]+\]
        LET p == FindIn(s, i + 1, {Pipe, RBracket})
        IN IF p = 0 \/ p = i + 1 \/ s[p] # Pipe THEN 0
           ELSE LET q == FindIn(s, p + 1, {RBracket})
                IN IF q = 0 \/ q = p + 1 THEN 0 ELSE q
    ELSE 0

\* f'__MASK{i}__'
MaskToken(i) == MaskHead \o Dec(i) \o MaskTail

RECURSIVE MaskFrom(_, _, _)
\* PLACEHOLDER_RE.sub(_repl, s) from position i on, masks being the list
\* _repl has filled so far
MaskFrom(s, i, masks) ==
    IF i > Len(s) THEN [masked |-> <<>>, masks |-> masks]
    ELSE LET e == FragmentEnd(s, i)
         IN IF e # 0
            THEN LET r == MaskFrom(s, e + 1, Append(masks, SubSeq(s, i, e)))
                 IN [masked |-> MaskToken(Len(masks)) \o r.masked,
                     masks |-> r.masks]
            ELSE LET r == MaskFrom(s, i + 1, masks)
                 IN [masked |-> <<s[i]>> \o r.masked, masks |-> r.masks]

mask_fragments(s) == MaskFrom(s, 1, <<>>)

RECURSIVE UnmaskFrom(_, _, _)
UnmaskFrom(s, masks, i) ==
    IF i > Len(masks) THEN s
    ELSE UnmaskFrom(Replace(s, MaskToken(i - 1), masks[i]), masks, i + 1)

unmask_fragments(s, masks) == UnmaskFrom(s, masks, 1)

\* CYRILLIC_RE.search(s) is None
looks_like_english(s) ==
    \A i \in 1..Len(s) : ~(s[i] >= CyrillicLo /\ s[i] <= CyrillicHi)

\* a needs_translation that holds of every string
needs_translation_always(s) == TRUE

needs_translation(s) == ~looks_like_english(s)

---------------------------------------------------------------------------
(* KV_VALUE_RE: a colon, \s*, then a quote, any run of escaped pairs       *)
(* (backslash, then any character but a newline) and of characters other   *)
(* than quote and backslash, and a quote.                                  *)

RECURSIVE LiteralBodyEnd(_, _)
\* The body of the literal and its closing quote, from j on: the index of
\* the closing quote, or 0.  The
\* loop is deterministic (a backslash needs a following character other
\* than a newline, any other character but a quote is taken alone), and
\* giving back iterations never helps, because it always stops before a
\* character that is not a quote.
LiteralBodyEnd(s, j) ==
    IF j > Len(s) THEN 0
    ELSE IF s[j] = Quote THEN j
    ELSE IF s[j] = Backslash
         THEN IF j + 1 <= Len(s) /\ s[j + 1] # Newline
              THEN LiteralBodyEnd(s, j + 2)
              ELSE 0
    ELSE LiteralBodyEnd(s, j + 1)

NoMatch == [start |-> 0, lit |-> 0, end |-> 0]

\* the match of KV_VALUE_RE that begins at i: start is the colon, lit the
\* opening quote, end the closing quote; NoMatch when none begins there
MatchAt(s, i) ==
    IF s[i] # Colon THEN NoMatch
    ELSE LET q == SkipIn(s, i + 1, Whitespace)
         IN IF q > Len(s) \/ s[q] # Quote THEN NoMatch
            ELSE LET e == LiteralBodyEnd(s, q + 1)
                 IN IF e = 0 THEN NoMatch
                    ELSE [start |-> i, lit |-> q, end |-> e]

RECURSIVE Search(_, _)
\* KV_VALUE_RE.search(s, i - 1): the leftmost match at or after i
Search(s, i) ==
    IF i > Len(s) THEN NoMatch
    ELSE LET m == MatchAt(s, i)
         IN IF m.start # 0 THEN m ELSE Search(s, i + 1)

Group1(s, m) == SubSeq(s, m.start, m.lit - 1)   \* m.group(1)
Group2(s, m) == SubSeq(s, m.lit, m.end)         \* m.group(2)

---------------------------------------------------------------------------
(* translate_value_literal and _replace_value.                             *)
(*                                                                         *)
(* translate_func is any callable: a call of it returns a string, returns  *)
(* something that is no string, or raises.  The behaviours the model       *)
(* draws from are in TranslateFuncs; Outcome gives what one of them does   *)
(* for a given argument.                                                   *)

\* the literal without its outer quotes, every backslash-quote pair
\* replaced by a quote (lines 109-113)
decode(literal) ==
    Replace(SubSeq(literal, 2, Len(literal) - 1), <<Backslash, Quote>>, <<Quote>>)

\* an encode that does not escape the quotes
encode_unescaped(x) == <<Quote>> \o x \o <<Quote>>

\* every quote replaced by backslash-quote, outer quotes put back
\* (lines 128-129)
encode(x) ==
    <<Quote>> \o Replace(x, <<Quote>>, <<Backslash, Quote>>) \o <<Quote>>

\* every Cyrillic letter replaced by the letter U+0456, the rest kept
Translit(s) ==
    [i \in 1..Len(s) |->
        IF s[i] >= CyrillicLo /\ s[i] <= CyrillicHi THEN CyrillicLo + 86 ELSE s[i]]

Outcome(tf, masked) ==
    CASE tf.kind = "same" -> [kind |-> "str", val |-> masked]
      [] tf.kind = "translit" -> [kind |-> "str", val |-> Translit(masked)]
      [] tf.kind = "const" -> [kind |-> "str", val |-> tf.val]
      [] tf.kind = "none" -> [kind |-> "none", val |-> <<>>]
      [] tf.kind = "raise" -> [kind |-> "raise", val |-> <<>>]

\* What a call of translate_value_literal does: raised (an exception left
\* it), value (what it returned), called (how often it called
\* translate_func), translateRaised (the exception came from translate_func).
translate_value_literal(literal, tf) ==
    IF ~(Len(literal) >= 1 /\ literal[1] = Quote /\ literal[Len(literal)] = Quote)
    THEN \* line 108: AssertionError
         [raised |-> TRUE, value |-> <<>>, called |-> 0, translateRaised |-> FALSE]
    ELSE LET inner_unescaped == decode(literal) IN
         IF ~needs_translation(inner_unescaped)
         THEN [raised |-> FALSE, value |-> literal, called |-> 0,
               translateRaised |-> FALSE]
         ELSE LET m == mask_fragments(inner_unescaped)
                  o == Outcome(tf, m.masked)
              IN IF o.kind = "raise"
                 THEN [raised |-> TRUE, value |-> <<>>, called |-> 1,
                       translateRaised |-> TRUE]
                 ELSE IF o.kind = "none"
                 THEN \* None has no replace(): AttributeError at line 125
                      \* (masks non-empty) or at line 128 (masks empty)
                      [raised |-> TRUE, value |-> <<>>, called |-> 1,
                       translateRaised |-> FALSE]
                 ELSE [raised |-> FALSE,
                       value |-> encode(unmask_fragments(o.val, m.masks)),
                       called |-> 1, translateRaised |-> FALSE]

\* a _replace_value without the try/except: the exception leaves it
replace_value_unguarded(prefix, literal, tf) ==
    LET r == translate_value_literal(literal, tf)
    IN [raised |-> r.raised, value |-> prefix \o r.value]

\* a _replace_value whose except branch forgets the prefix
replace_value_no_prefix(prefix, literal, tf) ==
    LET r == translate_value_literal(literal, tf)
    IN [raised |-> FALSE,
        value |-> IF r.raised THEN literal ELSE prefix \o r.value]

\* _replace_value (lines 150-157) on a match with groups prefix and
\* literal: raised tells whether an exception leaves it
replace_value(prefix, literal, tf) ==
    LET r == translate_value_literal(literal, tf)
    IN [raised |-> FALSE,
        value |-> IF r.raised THEN prefix \o literal ELSE prefix \o r.value]

---------------------------------------------------------------------------
(* Bounds and the inputs drawn within them.                                *)

MaxChunks == 5       \* pieces of an input file
MaxFnChunks == 3     \* pieces of an input of SpecFn
MaxCodecLen == 4     \* characters of a logical string of SpecFn

RECURSIVE Strings(_, _)
\* the concatenations of at most n members of chunks
Strings(chunks, n) ==
    IF n = 0 THEN {<<>>}
    ELSE LET shorter == Strings(chunks, n - 1)
         IN shorter \cup {c \o t : c \in chunks, t \in shorter}

\* pieces of an input file: colon-quote, colon-CR-LF-quote, a quote, a
\* backslash, a Cyrillic letter
FileChunks ==
    { <<Colon, Quote>>, <<Colon, CarriageReturn, Newline, Quote>>, <<Quote>>,
      <<Backslash>>, <<CyrillicLo + 52>> }

Texts == Strings(FileChunks, MaxChunks)

\* what translate_func may do when called: return its argument, return a
\* translation that keeps the mask tokens, return some other string,
\* return None, raise
TranslateFuncs ==
    { [kind |-> "same", val |-> <<>>], [kind |-> "translit", val |-> <<>>],
      [kind |-> "none", val |-> <<>>], [kind |-> "raise", val |-> <<>>] }
    \cup { [kind |-> "const", val |-> v] :
             v \in { <<>>, <<Backslash>>, <<98, Quote>> } }

---------------------------------------------------------------------------
(* process_file.                                                           *)
(*                                                                         *)
(* The run begins after get_translator (line 132) has returned.  The paths *)
(* are the input path, the backup path input_path + .bak, and one other    *)
(* path; output_path is any of the three.                                  *)

InputPath == "in"
BackupPath == "in.bak"
OtherPath == "out"
Paths == {InputPath, BackupPath, OtherPath}

Absent == [exists |-> FALSE, data |-> <<>>]
File(data) == [exists |-> TRUE, data |-> data]

\* os.linesep, here that of a POSIX system; on Windows it is CR LF
LineSep == <<Newline>>

\* f.read() of a file opened with open(path, 'r'): universal newlines, CR LF
\* and a lone CR are read as LF
ReadText(data) ==
    Replace(Replace(data, <<CarriageReturn, Newline>>, <<Newline>>),
            <<CarriageReturn>>, <<Newline>>)

\* what write(t) puts into a file opened with open(path, 'w'): every LF
\* becomes os.linesep
WriteText(t) == Replace(t, <<Newline>>, LineSep)

\* the content of a backup that an earlier run left
OldBackup == <<111, 108, 100>>

NoPending == NoMatch
NoRes == [value |-> <<>>, raised |-> FALSE, called |-> 0, mid |-> <<>>,
          masks |-> <<>>, kind |-> "none"]

InitFn0 == arg = <<>> /\ op = "off" /\ res = NoRes

Init ==
    /\ \E t \in Texts, b \in {Absent, File(OldBackup)} :
          fs = [p \in Paths |->
                  IF p = InputPath THEN File(t)
                  ELSE IF p = BackupPath THEN b ELSE Absent]
    /\ fs0 = fs
    /\ outputPath \in Paths
    /\ pc = "read"
    /\ text = <<>>
    /\ backup = "none"
    /\ pos = 1
    /\ new_text = <<>>
    /\ results = <<>>
    /\ pending = NoPending
    /\ InitFn0

\* lines 134-135
ReadInput ==
    /\ pc = "read"
    /\ text' = ReadText(fs[InputPath].data)
    /\ pc' = "backup"
    /\ UNCHANGED <<fs, fs0, outputPath, backup, pos, new_text, results, pending>>
    /\ UNCHANGED fnVars

\* a backup block that writes whether or not the backup exists
backup_block_overwrite(files, t, o) ==
    IF o = "written"
    THEN [fs |-> [files EXCEPT ![BackupPath] = File(WriteText(t))], status |-> "written",
          raised |-> FALSE]
    ELSE IF o = "write_failed"
    THEN [fs |-> [files EXCEPT ![BackupPath] = File(<<>>)],
          status |-> "write_failed", raised |-> FALSE]
    ELSE [fs |-> files, status |-> "open_failed", raised |-> FALSE]

\* a backup block without the try/except
backup_block_unguarded(files, t, o) ==
    IF files[BackupPath].exists
    THEN [fs |-> files, status |-> "skipped", raised |-> FALSE]
    ELSE IF o = "written"
    THEN [fs |-> [files EXCEPT ![BackupPath] = File(WriteText(t))], status |-> "written",
          raised |-> FALSE]
    ELSE IF o = "write_failed"
    THEN [fs |-> [files EXCEPT ![BackupPath] = File(<<>>)],
          status |-> "write_failed", raised |-> TRUE]
    ELSE [fs |-> files, status |-> "open_failed", raised |-> TRUE]

\* Lines 138-144 on the file system files with text t, o being what the
\* file system does when asked to write: "written", "open_failed" (open
\* raises, nothing changes) or "write_failed" (open has created the file,
\* the write raises; the model leaves the file empty).  raised tells
\* whether an exception leaves the block.
backup_block(files, t, o) ==
    IF files[BackupPath].exists
    THEN [fs |-> files, status |-> "skipped", raised |-> FALSE]
    ELSE IF o = "written"
    THEN [fs |-> [files EXCEPT ![BackupPath] = File(WriteText(t))], status |-> "written",
          raised |-> FALSE]
    ELSE IF o = "write_failed"
    THEN [fs |-> [files EXCEPT ![BackupPath] = File(<<>>)],
          status |-> "write_failed", raised |-> FALSE]
    ELSE [fs |-> files, status |-> "open_failed", raised |-> FALSE]

Backup ==
    /\ pc = "backup"
    /\ \E o \in {"written", "open_failed", "write_failed"} :
          LET b == backup_block(fs, text, o)
          IN /\ fs' = b.fs
             /\ backup' = b.status
             /\ pc' = IF b.raised THEN "aborted" ELSE "scan"
    /\ UNCHANGED <<fs0, outputPath, text, pos, new_text, results, pending>>
    /\ UNCHANGED fnVars

\* stands for translate_func where the call is not reached
NoCall == [kind |-> "raise", val |-> <<>>]
\* recorded for a match that led to no call
NotCalled == [kind |-> "not called", val |-> <<>>]

\* What KV_VALUE_RE.sub does with match m once _replace_value, whose
\* translate_func behaves as tf, is through with it: the text since the
\* last match and the replacement are appended, the scan resumes behind
\* the match.  An exception leaving _replace_value leaves sub and
\* process_file.
Substitute(m, tf) ==
    LET prefix == Group1(text, m)
        literal == Group2(text, m)
        r == translate_value_literal(literal, tf)
        rv == replace_value(prefix, literal, tf)
    IN IF rv.raised
       THEN /\ pc' = "aborted"
            /\ UNCHANGED <<pos, new_text, results>>
       ELSE /\ pc' = "scan"
            /\ pos' = m.end + 1
            /\ new_text' = new_text \o SubSeq(text, pos, m.start - 1) \o rv.value
            /\ results' = Append(results,
                  [start |-> m.start, lit |-> m.lit, end |-> m.end,
                   called |-> r.called, raised |-> r.raised,
                   translateRaised |-> r.translateRaised,
                   tf |-> IF r.called > 0 THEN tf ELSE NotCalled,
                   ret |-> r.value, out |-> rv.value,
                   at |-> Len(new_text) + (m.start - pos) + 1])


\* whether translate_value_literal, given the literal, calls translate_func
CallsTranslate(literal) == translate_value_literal(literal, NoCall).called > 0

\* sub finds the next match; its literal is handled without a call of
\* translate_func
ScanPlain ==
    /\ pc = "scan"
    /\ LET m == Search(text, pos)
       IN /\ m.start # 0
          /\ ~CallsTranslate(Group2(text, m))
          /\ Substitute(m, NoCall)
    /\ UNCHANGED <<fs, fs0, outputPath, text, backup, pending>>
    /\ UNCHANGED fnVars

\* sub finds the next match; translate_value_literal gets as far as the
\* call of translate_func (line 122), which is now in progress
ScanCall ==
    /\ pc = "scan"
    /\ LET m == Search(text, pos)
       IN /\ m.start # 0
          /\ CallsTranslate(Group2(text, m))
          /\ pending' = m
    /\ pc' = "translate"
    /\ UNCHANGED <<fs, fs0, outputPath, text, backup, pos, new_text, results>>
    /\ UNCHANGED fnVars

\* translate_func returns or raises; the rest of translate_value_literal
\* and of _replace_value runs
TranslateReturns ==
    /\ pc = "translate"
    /\ \E tf \in TranslateFuncs : Substitute(pending, tf)
    /\ pending' = NoPending
    /\ UNCHANGED <<fs, fs0, outputPath, text, backup>>
    /\ UNCHANGED fnVars

\* sub finds no further match: the rest of the text is appended
ScanEnd ==
    /\ pc = "scan"
    /\ Search(text, pos).start = 0
    /\ new_text' = new_text \o SubSeq(text, pos, Len(text))
    /\ pos' = Len(text) + 1
    /\ pc' = "write"
    /\ UNCHANGED <<fs, fs0, outputPath, text, backup, results, pending>>
    /\ UNCHANGED fnVars

\* lines 164-165
WriteOutput ==
    /\ pc = "write"
    /\ fs' = [fs EXCEPT ![outputPath] = File(WriteText(new_text))]
    /\ pc' = "done"
    /\ UNCHANGED <<fs0, outputPath, text, backup, pos, new_text, results, pending>>
    /\ UNCHANGED fnVars

\* line 164 raises (the output cannot be opened): the run ends with the
\* exception, the file is as it was
WriteFails ==
    /\ pc = "write"
    /\ pc' = "write_failed"
    /\ UNCHANGED <<fs, fs0, outputPath, text, backup, pos, new_text, results, pending>>
    /\ UNCHANGED fnVars

Next ==
    \/ ReadInput
    \/ Backup
    \/ ScanPlain
    \/ ScanCall
    \/ TranslateReturns
    \/ ScanEnd
    \/ WriteOutput
    \/ WriteFails

Spec == Init /\ [][Next]_vars

---------------------------------------------------------------------------
(* SpecFn: the functions applied to an input.                              *)

\* logical strings of quotes, backslashes and a Latin letter
CodecInputs == Strings({<<Quote>>, <<Backslash>>, <<97>>}, MaxCodecLen)

\* pieces of a value: a Cyrillic letter, one fragment of each class of
\* PLACEHOLDER_RE ( %1  {a}  <b>  &a;  [a|b] ), the text of a mask token,
\* an opening brace, an escaped quote
FnChunks ==
    { <<CyrillicLo + 52>>,
      <<Percent, 49>>,
      <<LBrace, 97, RBrace>>,
      <<Lt, 98, Gt>>,
      <<Amp, 97, Semicolon>>,
      <<LBracket, 97, Pipe, 98, RBracket>>,
      MaskToken(0),
      <<LBrace>>,
      <<Backslash, Quote>> }

ValueInputs == Strings(FnChunks, MaxFnChunks)

FnInputs ==
    CodecInputs \cup ValueInputs
        \cup {<<Quote>> \o x \o <<Quote>> : x \in CodecInputs \cup ValueInputs}

InitFile0 ==
    /\ fs = [p \in Paths |-> Absent]
    /\ fs0 = fs
    /\ outputPath = OtherPath
    /\ pc = "off"
    /\ text = <<>>
    /\ backup = "none"
    /\ pos = 1
    /\ new_text = <<>>
    /\ results = <<>>
    /\ pending = NoPending

InitFn ==
    /\ arg \in FnInputs
    /\ op = "idle"
    /\ res = NoRes
    /\ InitFile0

\* unmask_fragments(*mask_fragments(arg))
MaskUnmask ==
    /\ op = "idle"
    /\ op' = "mask_unmask"
    /\ LET m == mask_fragments(arg)
       IN res' = [NoRes EXCEPT !.mid = m.masked, !.masks = m.masks,
                               !.value = unmask_fragments(m.masked, m.masks)]
    /\ UNCHANGED arg
    /\ UNCHANGED fileVars

\* the logical string arg encoded (lines 128-129), and that decoded
\* (lines 109-113)
EncodeDecode ==
    /\ op = "idle"
    /\ op' = "encode_decode"
    /\ res' = [NoRes EXCEPT !.mid = encode(arg), !.value = decode(encode(arg))]
    /\ UNCHANGED arg
    /\ UNCHANGED fileVars

\* translate_value_literal(arg, translate_func)
TranslateValueLiteral ==
    /\ op = "idle"
    /\ op' = "translate_value_literal"
    /\ \E tf \in TranslateFuncs :
          LET r == translate_value_literal(arg, tf)
          IN res' = [NoRes EXCEPT !.value = r.value, !.raised = r.raised,
                                  !.called = r.called, !.kind = tf.kind]
    /\ UNCHANGED arg
    /\ UNCHANGED fileVars

NextFn ==
    \/ MaskUnmask
    \/ EncodeDecode
    \/ TranslateValueLiteral

SpecFn == InitFn /\ [][NextFn]_vars

---------------------------------------------------------------------------
(* Notions the properties are stated with.                                 *)

\* s contains a character of U+0400..U+04FF
HasCyrillic(s) == \E i \in 1..Len(s) : s[i] \in 1024..1279

\* s begins and ends with a quote
IsQuoted(s) == Len(s) >= 1 /\ s[1] = 34 /\ s[Len(s)] = 34

\* the first index j >= i where pat occurs in s, or 0
RECURSIVE IndexOf(_, _, _)
IndexOf(s, pat, i) ==
    IF i + Len(pat) - 1 > Len(s) THEN 0
    ELSE IF SubSeq(s, i, i + Len(pat) - 1) = pat THEN i
    ELSE IndexOf(s, pat, i + 1)

\* the strings of frags occur in s from i on, in this order, one after the
\* other without overlap
RECURSIVE ContainsInOrder(_, _, _)
ContainsInOrder(s, frags, i) ==
    IF frags = <<>> THEN TRUE
    ELSE LET j == IndexOf(s, Head(frags), i)
         IN j # 0 /\ ContainsInOrder(s, Tail(frags), j + Len(Head(frags)))

\* the protected fragments of s: the matches of PLACEHOLDER_RE, in order
Fragments(s) == mask_fragments(s).masks

\* translate_func returned a string
ReturnsString(kind) == kind \in {"same", "translit", "const"}

---------------------------------------------------------------------------
(* Properties of the functions (SpecFn).                                   *)

\* C1: for every string s, unmask_fragments applied to what
\* mask_fragments(s) returns gives s back, also when s holds text of the
\* form of a mask token.
C1_MaskRoundTrip ==
    op = "mask_unmask" => res.value = arg

\* C2: for a literal whose decoded value contains Cyrillic, whatever string
\* translate_func returns, the decoded value of the returned literal
\* contains every protected fragment of the input's decoded value, once
\* for each occurrence and in the original order.
C2_FragmentsPreserved ==
    (/\ op = "translate_value_literal"
     /\ IsQuoted(arg)
     /\ HasCyrillic(decode(arg))
     /\ ReturnsString(res.kind))
    => (/\ ~res.raised
        /\ IsQuoted(res.value)
        /\ ContainsInOrder(decode(res.value), Fragments(decode(arg)), 1))

\* C3: for a literal whose decoded value has no character of
\* U+0400..U+04FF, translate_value_literal returns the literal as it is
\* and does not call translate_func, whatever translate_func would do.
C3_NoCyrillicIdentity ==
    (/\ op = "translate_value_literal"
     /\ IsQuoted(arg)
     /\ ~HasCyrillic(decode(arg)))
    => (/\ ~res.raised
        /\ res.value = arg
        /\ res.called = 0)

\* a literal without Cyrillic but with a fragment and an escaped quote came
\* back unchanged from a call whose translate_func raises when called
C3_Witness ==
    /\ op = "translate_value_literal"
    /\ arg = <<34, 37, 49, 92, 34, 34>>
    /\ res.kind = "raise"
    /\ ~res.raised
    /\ res.value = arg
    /\ res.called = 0

\* C7: for every logical string x, also with quotes and backslashes in it,
\* the encoded form is a quoted literal, and decoding it gives x back.
C7_QuoteRoundTrip ==
    op = "encode_decode"
    => (/\ IsQuoted(res.mid)
        /\ Len(res.mid) >= 2
        /\ res.value = arg)

\* x is backslash, quote, letter, quote: its encoded form is quote,
\* backslash, backslash, quote, letter, backslash, quote, quote
C7_Witness ==
    /\ op = "encode_decode"
    /\ arg = <<92, 34, 97, 34>>
    /\ res.mid = <<34, 92, 92, 34, 97, 92, 34, 34>>
    /\ res.value = arg

---------------------------------------------------------------------------
(* Notions the properties of a run are stated with.                        *)

RECURSIVE MatchesFrom(_, _)
\* the matches of KV_VALUE_RE in s from i on, left to right
MatchesFrom(s, i) ==
    LET m == Search(s, i)
    IN IF m.start = 0 THEN <<>> ELSE <<m>> \o MatchesFrom(s, m.end + 1)

Matches(s) == MatchesFrom(s, 1)

\* the match of the k-th record of results, as a match of text
MatchOf(k) == [start |-> results[k].start, lit |-> results[k].lit,
               end |-> results[k].end]
PrefixOf(k) == SubSeq(text, results[k].start, results[k].lit - 1)
LiteralOf(k) == SubSeq(text, results[k].lit, results[k].end)

\* the k-th match is a value whose decoded form contains Cyrillic
Eligible(k) == HasCyrillic(decode(LiteralOf(k)))

\* the characters of s at the indices outside every interval of spans
RECURSIVE OutsideFrom(_, _, _)
OutsideFrom(s, spans, i) ==
    IF i > Len(s) THEN <<>>
    ELSE IF \E sp \in spans : sp[1] <= i /\ i <= sp[2]
         THEN OutsideFrom(s, spans, i + 1)
         ELSE <<s[i]>> \o OutsideFrom(s, spans, i + 1)

Outside(s, spans) == OutsideFrom(s, spans, 1)

\* in text: the literals of the eligible matches
EligibleSpansIn ==
    {<<results[k].lit, results[k].end>> : k \in {j \in DOMAIN results : Eligible(j)}}

\* in new_text: what stands where the literals of the eligible matches
\* stood (the replacement without the prefix)
EligibleSpansOut ==
    {<<results[k].at + Len(PrefixOf(k)), results[k].at + Len(results[k].out) - 1>> :
        k \in {j \in DOMAIN results : Eligible(j)}}

\* sub is through with the text
Assembled == pc \in {"write", "done", "write_failed"}

\* lit is a quote, then escaped pairs and characters other than quote and
\* backslash, then a quote
IsCompleteLiteral(lit) ==
    /\ Len(lit) >= 2
    /\ lit[1] = 34
    /\ LiteralBodyEnd(lit, 2) = Len(lit)

\* the run ended, one way or the other
Ended == pc \in {"done", "write_failed", "aborted"}

---------------------------------------------------------------------------
(* Properties of a run of process_file (Spec).                             *)

\* C4: the text process_file writes equals the input text everywhere
\* outside the literals of the matches whose decoded value contains
\* Cyrillic: with those literals cut out of the input, and what replaced
\* them cut out of the output, the two texts are the same (the text
\* between matches, every prefix, every literal without Cyrillic, in the
\* same order), and the file written holds that output.
C4_FrameOutsideEligibleLiterals ==
    /\ Assembled =>
          /\ Len(results) = Len(Matches(text))
          /\ Outside(new_text, EligibleSpansOut) = Outside(text, EligibleSpansIn)
    /\ pc = "done" => fs[outputPath] = File(WriteText(new_text))

\* the output is written; of two matches the first, with Cyrillic, was
\* translated into something else, the second, behind a colon and a space,
\* has no Cyrillic
C4_Witness ==
    /\ pc = "done"
    /\ Len(results) = 2
    /\ Eligible(1)
    /\ results[1].out # PrefixOf(1) \o LiteralOf(1)
    /\ ~Eligible(2)
    /\ PrefixOf(2) = <<58, 10>>
    /\ new_text # text

\* C5 as stated: when translate_func raises on a literal whose decoded
\* value contains Cyrillic, translate_value_literal returns that literal
\* and raises nothing.
C5_TranslateValueLiteralFailSafe ==
    \A k \in DOMAIN results :
        (Eligible(k) /\ results[k].tf.kind = "raise")
        => (~results[k].raised /\ results[k].ret = LiteralOf(k))

\* C5 amended: when translate_func raises on a literal whose decoded value
\* contains Cyrillic, the exception leaves translate_value_literal, and
\* its caller _replace_value catches it and returns the prefix and the
\* literal as they were; no exception leaves _replace_value.
C5_ReplaceValueFailSafe ==
    /\ pc # "aborted"
    /\ \A k \in DOMAIN results :
          (Eligible(k) /\ results[k].tf.kind = "raise")
          => (/\ results[k].raised
              /\ results[k].translateRaised
              /\ results[k].out = PrefixOf(k) \o LiteralOf(k))

\* a match with Cyrillic whose translate call raised was replaced by its
\* own text, and the run went on to write the output
C5_Witness ==
    /\ pc = "done"
    /\ \E k \in DOMAIN results :
          /\ Eligible(k)
          /\ results[k].tf.kind = "raise"
          /\ results[k].called = 1
          /\ results[k].out = PrefixOf(k) \o LiteralOf(k)

\* C6: no failure of the backup block and no exception in the processing
\* of a literal (translate_func raising, or returning what is no string)
\* ends the run: the run is never ended by such an exception (so that
\* every step but the last write leads to the next one), every match has
\* been processed when the output is assembled, and in the output every
\* literal whose processing raised stands as its prefix and literal.
C6_FailuresAbsorbed ==
    /\ pc # "aborted"
    /\ pc = "translate" => pending.start # 0
    /\ Assembled =>
          /\ Len(results) = Len(Matches(text))
          /\ \A k \in DOMAIN results :
                results[k].raised =>
                    SubSeq(new_text, results[k].at,
                           results[k].at + (results[k].end - results[k].start))
                        = SubSeq(text, results[k].start, results[k].end)
    /\ pc = "done" => fs[outputPath] = File(WriteText(new_text))

\* the backup could not be written, the first match raised because
\* translate_func returned no string, a second match was processed after
\* it, and the output is written
C6_Witness ==
    /\ pc = "done"
    /\ backup \in {"open_failed", "write_failed"}
    /\ Len(results) = 2
    /\ results[1].raised
    /\ results[1].tf.kind = "none"
    /\ fs[outputPath] = File(WriteText(text))

\* C8: with translate_func returning strings, every literal put into the
\* output is a complete literal, and scanning the output gives as many
\* matches as scanning the input, with the same prefixes.
C8_OutputStructure ==
    (/\ Assembled
     /\ \A k \in DOMAIN results :
           results[k].called = 1 => ReturnsString(results[k].tf.kind))
    => (/\ \A k \in DOMAIN results :
              IsCompleteLiteral(SubSeq(results[k].out, Len(PrefixOf(k)) + 1,
                                       Len(results[k].out)))
        /\ Len(Matches(new_text)) = Len(Matches(text))
        /\ \A k \in DOMAIN results :
              k <= Len(Matches(new_text))
              => Group1(new_text, Matches(new_text)[k]) = PrefixOf(k))

RunInOrder ==
    LET ms == Matches(text)
    IN /\ Len(results) <= Len(ms)
       /\ \A k \in DOMAIN results :
             /\ MatchOf(k) = ms[k]
             /\ results[k].called = IF Eligible(k) THEN 1 ELSE 0
       /\ pc = "translate" =>
             /\ Len(results) < Len(ms)
             /\ pending = ms[Len(results) + 1]
             /\ HasCyrillic(decode(Group2(text, pending)))
       /\ pc \in {"write", "done", "write_failed"} => Len(results) = Len(ms)

\* a match is still to be processed, or being processed
MatchesLeft ==
    pc \in {"read", "backup", "scan", "translate"}
        /\ (pc \in {"read", "backup"} => Matches(ReadText(fs[InputPath].data)) # <<>>)
        /\ (pc \in {"scan", "translate"} => Len(results) < Len(Matches(text)))

\* C10 as stated: the matches are processed in order, one after the other,
\* with one call of translate_func for a match with Cyrillic and none
\* otherwise, the output is written after the last match, and as long as
\* a match is left the output file has not been written at all.
C10_OrderedAndOutputUntouched ==
    /\ RunInOrder
    /\ MatchesLeft => fs[outputPath] = fs0[outputPath]

\* C10 amended: as above, but as long as a match is left, the only file
\* the run has written is the backup: the output file is as it was before
\* the run unless output_path is the backup path, which then holds what
\* the backup block put there.
C10_OrderedAndOnlyBackupWritten ==
    /\ RunInOrder
    /\ MatchesLeft =>
          /\ \A p \in Paths \ {BackupPath} : fs[p] = fs0[p]
          /\ fs[BackupPath] \in {fs0[BackupPath], File(WriteText(text)), File(<<>>)}
    /\ pc = "done" => fs[outputPath] = File(WriteText(new_text))

\* the first match, with Cyrillic, is done after its one call, the second
\* is still to come, and the output file is as it was
C10_Witness ==
    /\ pc = "scan"
    /\ Len(results) = 1
    /\ results[1].called = 1
    /\ Len(Matches(text)) = 2
    /\ outputPath = InputPath
    /\ fs[outputPath] = fs0[outputPath]

============================================================================
